---- MODULE Spec2Model ----
(***************************************************************************)
(* Model of rbi_bot.py: one scheduled run of main() polls the RSS feed,    *)
(* computes the entries newer than the persisted watermark                 *)
(* (last_title.txt), notifies them oldest-first and saves the new          *)
(* watermark.                                                              *)
(*                                                                         *)
(* A Python str is modelled as a sequence of tokens.  A token is either a  *)
(* whitespace character (" " or "\n") or a run of non-whitespace           *)
(* characters whose length is given by TokLen.  str.strip() and            *)
(* textwrap.wrap() are computed on that representation.                    *)
(***************************************************************************)
EXTENDS Integers, Sequences, FiniteSets, TLC

(* ---------------------------- bounds ----------------------------------- *)
\* longest feed the server publishes
MaxFeed == 2
\* failing responses (non-200 page, failed summarization, rejected chat
\* post) injected over a behaviour
MaxFaults == 1
\* runs of main() started by the external scheduler
MaxRuns == 2

(* ---------------------------- strings ---------------------------------- *)
IsSpace(t) == t \in {" ", "\n"}

TokLen(t) ==
  CASE t = "w3000" -> 3000
    [] t = "w5000" -> 5000
    [] t = "<b>" -> 3
    [] t = "</b>" -> 4
    [] t = "(summary" -> 8
    [] t = "unavailable)" -> 12
    [] t = "(Could" -> 6
    [] t = "not" -> 3
    [] t = "fetch" -> 5
    [] t = "content;" -> 8
    [] t = "HTTP" -> 4
    [] t = "404)" -> 4
    [] t = "500)" -> 4
    [] t = "Press" -> 5
    [] t = "release" -> 7
    [] t = "<a" -> 2
    [] t = "href=" -> 6
    [] t = "u1" -> 20
    [] t = "u2" -> 20
    [] t = ">Read" -> 6
    [] t = "full" -> 4
    [] t = "circular</a>" -> 12
    [] OTHER -> 1

RECURSIVE LStrip(_)
LStrip(s) == IF s # <<>> /\ IsSpace(Head(s)) THEN LStrip(Tail(s)) ELSE s

RECURSIVE RStrip(_)
RStrip(s) ==
  IF s # <<>> /\ IsSpace(s[Len(s)]) THEN RStrip(SubSeq(s, 1, Len(s) - 1)) ELSE s

\* str.strip()
Strip(s) == RStrip(LStrip(s))

(* ---------------------------- textwrap.wrap ---------------------------- *)
\* send_message: textwrap.wrap(text, 4000, replace_whitespace=False)
Width == 4000

\* TextWrapper._split: maximal runs of whitespace / non-whitespace
\* (texts of the model hold no hyphenated words)
RECURSIVE SplitChunks(_, _)
SplitChunks(text, acc) ==
  IF text = <<>> THEN acc
  ELSE LET t == Head(text)
           c == [ws |-> IsSpace(t), len |-> TokLen(t)]
           n == Len(acc)
       IN IF n > 0 /\ acc[n].ws = c.ws
            THEN SplitChunks(Tail(text),
                   [acc EXCEPT ![n] = [ws |-> c.ws, len |-> acc[n].len + c.len]])
            ELSE SplitChunks(Tail(text), Append(acc, c))

\* inner loop of _wrap_chunks: take chunks while they fit the line
RECURSIVE Fill(_, _)
Fill(cs, cur) ==
  IF cs # <<>> /\ cur.len + Head(cs).len <= Width
    THEN Fill(Tail(cs), [len |-> cur.len + Head(cs).len, n |-> cur.n + 1,
                         lastWs |-> Head(cs).ws, lastLen |-> Head(cs).len])
    ELSE [rest |-> cs, len |-> cur.len, n |-> cur.n,
          lastWs |-> cur.lastWs, lastLen |-> cur.lastLen]

\* outer loop of _wrap_chunks (drop_whitespace and break_long_words are the
\* defaults); a line is represented by its length in characters
RECURSIVE WrapChunks(_, _)
WrapChunks(cs, lines) ==
  IF cs = <<>> THEN lines
  ELSE LET cs1 == IF Head(cs).ws /\ lines # <<>> THEN Tail(cs) ELSE cs
           f == Fill(cs1, [len |-> 0, n |-> 0, lastWs |-> FALSE, lastLen |-> 0])
           long == f.rest # <<>> /\ Head(f.rest).len > Width
           space == Width - f.len
           g == IF long
                  THEN LET h == Head(f.rest)
                       IN [rest |-> <<[ws |-> h.ws, len |-> h.len - space]>>
                                       \o Tail(f.rest),
                           len |-> f.len + space, n |-> f.n + 1,
                           lastWs |-> h.ws \/ space = 0, lastLen |-> space]
                  ELSE f
           drop == g.n > 0 /\ g.lastWs
           lineLen == IF drop THEN g.len - g.lastLen ELSE g.len
           lineN == IF drop THEN g.n - 1 ELSE g.n
       IN WrapChunks(g.rest, IF lineN > 0 THEN Append(lines, lineLen) ELSE lines)

Wrap(text) == WrapChunks(SplitChunks(text, <<>>), <<>>)

(* ---------------------------- inputs ----------------------------------- *)
\* LAST_TITLE_FILE: absent, or present with some content
NoFile == [exists |-> FALSE, content |-> <<>>]
FileOf(s) == [exists |-> TRUE, content |-> s]

\* titles the feed may carry: empty, plain, and with trailing whitespace
Titles == {<<>>, <<"A">>, <<"B">>, <<"A", " ">>}
\* titles that are non-empty and free of leading/trailing whitespace
CleanTitles == {<<"A">>, <<"B">>, <<"C">>}
Links == {"u1"}
\* non-success HTTP status codes the servers answer with
ErrStatuses == {500}

Entry(t, l) == [title |-> t, link |-> l]

SeqsUpTo(S, n) == UNION {[1..m -> S] : m \in 0..n}

Distinct(es) == \A a, b \in 1..Len(es) : a # b => es[a].title # es[b].title

\* text the extraction yields for a page answered with status 200
PageText == <<"Press", " ", "release">>
\* summary_text of a successful summarization call
SummaryText == <<"w3000", " ", "w5000">>

StatusTok(code) == IF code = 404 THEN "404)" ELSE "500)"

(* ---------------------------- state ------------------------------------ *)
VARIABLES
  feed,        \* the feed as published at RSS_FEED, newest first
  file,        \* content of LAST_TITLE_FILE, or NoFile
  pc,          \* position of the run in main()
  entries,     \* feed.entries of this run
  last_title,  \* main: last_title
  new_entries, \* main: new_entries
  i,           \* number of the iteration the loop of line 99 is in
  full_text,   \* main: full_text
  summary,     \* main: summary
  chunks,      \* send_message: the wrapped chunks of the text being sent
  text,        \* send_message: text
  k,           \* send_message: index of the next chunk to post
  log,         \* external effects of this run, in order
  faults,      \* failing responses injected so far
  run,         \* number of the current run
  file0,       \* content of LAST_TITLE_FILE when the run started
  fetched,     \* this run's feed request answered 200
  processed,   \* [run, entry] of every entry whose two messages were sent
  crashed,     \* some run ended in an uncaught exception
  published,   \* the feed changed since the current run started
  sinceDone,   \* at the start of this run the feed was as the latest run
               \* that returned normally left it
  sinceFetched \* the same, for the latest run that returned normally and
               \* whose feed request answered 200

vars == <<feed, file, pc, entries, last_title, new_entries, i, full_text,
          summary, chunks, text, k, log, faults, run, file0, fetched,
          processed, crashed, published, sinceDone, sinceFetched>>

main_locals == <<entries, last_title, new_entries, i, full_text, summary>>
send_locals == <<chunks, text, k>>
schedule == <<run, file0, published, sinceDone, sinceFetched>>

(* ---------------------------- functions -------------------------------- *)
\* load_last_title() without the strip()
LoadUnstripped(f) == IF f.exists THEN f.content ELSE <<>>

\* load_last_title()
LoadLastTitle(f) == IF f.exists THEN Strip(f.content) ELSE <<>>

\* the loop of lines 89-92 with the matching entry appended before the break
RECURSIVE NewEntriesInclusive(_, _, _)
NewEntriesInclusive(es, last, acc) ==
  IF es = <<>> THEN acc
  ELSE IF Head(es).title = last THEN Append(acc, Head(es))
  ELSE NewEntriesInclusive(Tail(es), last, Append(acc, Head(es)))

\* main, lines 88-92: collect entries until one carries the last title
RECURSIVE NewEntries(_, _, _)
NewEntries(es, last, acc) ==
  IF es = <<>> THEN acc
  ELSE IF Head(es).title = last THEN acc
  ELSE NewEntries(Tail(es), last, Append(acc, Head(es)))

\* iteration in feed order instead of reversed
ForwardAt(n, p) == p

\* reversed(new_entries): the index visited by iteration p of n
ReversedAt(n, p) == n + 1 - p

\* the title of the oldest new entry instead of the newest
OldestTitle(ne) == ne[Len(ne)].title

\* main, line 110: the title handed to save_last_title
SavedTitle(ne) == ne[1].title

\* main, line 102: f"<b>{entry.title}</b>"
HeaderText(title) == <<"<b>">> \o title \o <<"</b>">>

\* main, line 107: summary + link line
SummaryMessage(s, link) ==
  s \o <<"\n", "\n", "*", " ", "<a", " ", "href=", link, ">Read", " ",
         "full", " ", "circular</a>">>

\* summarize, line 30
SummaryUnavailable == <<"(summary", " ", "unavailable)">>

\* fetch_full_text, line 48
CouldNotFetch(code) ==
  <<"(Could", " ", "not", " ", "fetch", " ", "content;", " ", "HTTP", " ",
    StatusTok(code)>>

\* an external effect: chunk c of n of a message (0 of 0 for the other
\* requests), the status answered, the text sent, returned or written
Event(op, e, c, n, st, t) ==
  [op |-> op, entry |-> e, chunk |-> c, of |-> n, status |-> st, text |-> t]

\* main() ended in an uncaught exception, raised by the feed request, by a
\* chat post or by a page request
Raised == {"raised_feed", "raised_post", "raised_page"}

\* main() has ended
Ended == {"done"} \cup Raised

\* the index in new_entries of the entry being processed
Cur == ReversedAt(Len(new_entries), i)

(* ---------------------------- initial states --------------------------- *)
InitLocals ==
  /\ pc = "start"
  /\ entries = <<>>
  /\ last_title = <<>>
  /\ new_entries = <<>>
  /\ i = 0
  /\ full_text = <<>>
  /\ summary = <<>>
  /\ chunks = <<>>
  /\ text = <<>>
  /\ k = 0
  /\ log = <<>>
  /\ faults = 0
  /\ run = 1
  /\ file0 = file
  /\ fetched = FALSE
  /\ processed = {}
  /\ crashed = FALSE
  /\ published = FALSE
  /\ sinceDone = FALSE
  /\ sinceFetched = FALSE

\* any feed, any watermark file
Init ==
  /\ feed \in SeqsUpTo({Entry(t, l) : t \in Titles, l \in Links}, MaxFeed)
  /\ file \in {NoFile} \cup {FileOf(t) : t \in Titles}
  /\ InitLocals

\* first run ever, over a feed of distinct clean titles
InitRuns ==
  /\ feed \in {es \in SeqsUpTo({Entry(t, l) : t \in CleanTitles, l \in Links}, MaxFeed) :
                 Distinct(es)}
  /\ file = NoFile
  /\ InitLocals

\* the feed [A,B,C,D] with the watermark "B"
InitExample ==
  /\ feed \in {<<Entry(<<"A">>, l1), Entry(<<"B">>, l2),
                 Entry(<<"C">>, l3), Entry(<<"D">>, l4)>> :
                 l1 \in {"u1", "u2"}, l2 \in {"u1", "u2"}, l3 \in {"u1"}, l4 \in {"u1"}}
  /\ file = FileOf(<<"B">>)
  /\ InitLocals

(* ---------------------------- main ------------------------------------- *)
\* lines 74-83: fetch and parse the feed
MainFetchFeed ==
  /\ pc = "start"
  /\ \/ \* requests.get raises (timeout, connection error)
        /\ pc' = "raised_feed"
        /\ crashed' = TRUE
        /\ UNCHANGED <<entries, fetched>>
     \/ \* resp.status_code != 200
        /\ \E code \in ErrStatuses : pc' = "done"
        /\ UNCHANGED <<entries, fetched, crashed>>
     \/ \* status 200
        /\ entries' = feed
        /\ fetched' = TRUE
        /\ pc' = IF feed = <<>> THEN "done" ELSE "delta"
        /\ UNCHANGED crashed
  /\ UNCHANGED <<feed, file, last_title, new_entries, i, full_text, summary,
                 send_locals, log, faults, processed, schedule>>

\* lines 85-96: load the watermark and compute the new entries
MainDelta ==
  /\ pc = "delta"
  /\ last_title' = LoadLastTitle(file)
  /\ new_entries' = NewEntries(entries, last_title', <<>>)
  /\ pc' = IF new_entries' = <<>> THEN "done" ELSE "loop"
  /\ i' = 1
  /\ UNCHANGED <<feed, file, entries, full_text, summary, send_locals, log,
                 faults, fetched, processed, crashed, schedule>>

\* lines 99-102: next entry, call send_message with the header
MainHeader ==
  /\ pc = "loop"
  /\ i <= Len(new_entries)
  /\ text' = HeaderText(new_entries[Cur].title)
  /\ chunks' = Wrap(text')
  /\ k' = 1
  /\ pc' = "send_header"
  /\ UNCHANGED <<feed, file, main_locals, log, faults, fetched, processed,
                 crashed, schedule>>

\* send_message, lines 35-42: post the next chunk
SendPost ==
  /\ pc \in {"send_header", "send_summary"}
  /\ k <= Len(chunks)
  /\ \/ \* requests.post raises
        /\ pc' = "raised_post"
        /\ crashed' = TRUE
        /\ UNCHANGED <<k, log, faults>>
     \/ \* the destination rejects the message
        /\ faults < MaxFaults
        /\ \E code \in ErrStatuses :
             log' = Append(log, Event(pc, Cur, k, Len(chunks), code, text))
        /\ faults' = faults + 1
        /\ k' = k + 1
        /\ UNCHANGED <<pc, crashed>>
     \/ \* status 200
        /\ log' = Append(log, Event(pc, Cur, k, Len(chunks), 200, text))
        /\ k' = k + 1
        /\ UNCHANGED <<pc, crashed, faults>>
  /\ UNCHANGED <<feed, file, main_locals, chunks, text, fetched, processed,
                 schedule>>

\* send_message returns: to line 105 after the header, to the next
\* iteration after the summary
SendReturn ==
  /\ pc \in {"send_header", "send_summary"}
  /\ k > Len(chunks)
  /\ IF pc = "send_header"
       THEN /\ pc' = "fetch"
            /\ UNCHANGED <<i, processed>>
       ELSE /\ pc' = "loop"
            /\ i' = i + 1
            /\ processed' = processed \cup {[run |-> run, entry |-> new_entries[Cur]]}
  /\ UNCHANGED <<feed, file, entries, last_title, new_entries, full_text,
                 summary, send_locals, log, faults, fetched, crashed, schedule>>

\* fetch_full_text, lines 44-62
FetchFullText ==
  /\ pc = "fetch"
  /\ \/ \* requests.get raises (the 10 s timeout, connection error)
        /\ pc' = "raised_page"
        /\ crashed' = TRUE
        /\ UNCHANGED <<full_text, log, faults>>
     \/ \* r.status_code != 200
        /\ faults < MaxFaults
        /\ \E code \in ErrStatuses :
             /\ full_text' = CouldNotFetch(code)
             /\ log' = Append(log, Event("get", Cur, 0, 0, code, full_text'))
        /\ faults' = faults + 1
        /\ pc' = "summarize"
        /\ UNCHANGED crashed
     \/ \* status 200: the extracted text
        /\ full_text' = PageText
        /\ log' = Append(log, Event("get", Cur, 0, 0, 200, full_text'))
        /\ pc' = "summarize"
        /\ UNCHANGED <<crashed, faults>>
  /\ UNCHANGED <<feed, file, entries, last_title, new_entries, i, summary,
                 send_locals, fetched, processed, schedule>>

\* summarize, lines 22-30, and the call of send_message in line 107
Summarize ==
  /\ pc = "summarize"
  /\ \/ \* the inference call answers
        /\ summary' = SummaryText
        /\ log' = Append(log, Event("summarize", Cur, 0, 0, 200, full_text))
        /\ UNCHANGED faults
     \/ \* the inference call raises: caught in line 28
        /\ faults < MaxFaults
        /\ summary' = SummaryUnavailable
        /\ log' = Append(log, Event("summarize", Cur, 0, 0, 0, full_text))
        /\ faults' = faults + 1
  /\ text' = SummaryMessage(summary', new_entries[Cur].link)
  /\ chunks' = Wrap(text')
  /\ k' = 1
  /\ pc' = "send_summary"
  /\ UNCHANGED <<feed, file, entries, last_title, new_entries, i, full_text,
                 fetched, processed, crashed, schedule>>

\* lines 109-111: save_last_title(new_entries[0].title)
MainSave ==
  /\ pc = "loop"
  /\ i > Len(new_entries)
  /\ file' = FileOf(SavedTitle(new_entries))
  /\ log' = Append(log, Event("save", 1, 0, 0, 200, SavedTitle(new_entries)))
  /\ pc' = "done"
  /\ UNCHANGED <<feed, main_locals, send_locals, faults, fetched, processed,
                 crashed, schedule>>

(* ---------------------------- environment ------------------------------ *)
\* the publisher prepends an entry with a fresh clean title
Publish ==
  /\ pc \in Ended
  /\ Len(feed) < MaxFeed
  /\ \E t \in CleanTitles, l \in Links :
       /\ \A j \in 1..Len(feed) : feed[j].title # t
       /\ feed' = <<Entry(t, l)>> \o feed
  /\ published' = TRUE
  /\ UNCHANGED <<file, pc, main_locals, send_locals, log, faults, run, file0,
                 fetched, processed, crashed, sinceDone, sinceFetched>>

\* the external scheduler starts main() again
Schedule ==
  /\ pc \in Ended
  /\ run < MaxRuns
  /\ run' = run + 1
  /\ pc' = "start"
  /\ entries' = <<>>
  /\ last_title' = <<>>
  /\ new_entries' = <<>>
  /\ i' = 0
  /\ full_text' = <<>>
  /\ summary' = <<>>
  /\ chunks' = <<>>
  /\ text' = <<>>
  /\ k' = 0
  /\ log' = <<>>
  /\ file0' = file
  /\ fetched' = FALSE
  /\ published' = FALSE
  /\ sinceDone' = (~published /\ (pc = "done" \/ sinceDone))
  /\ sinceFetched' = (~published /\ ((pc = "done" /\ fetched) \/ sinceFetched))
  /\ UNCHANGED <<feed, file, faults, processed, crashed>>

Next ==
  \/ MainFetchFeed
  \/ MainDelta
  \/ MainHeader
  \/ SendPost
  \/ SendReturn
  \/ FetchFullText
  \/ Summarize
  \/ MainSave

NextRuns ==
  \/ Next
  \/ Publish
  \/ Schedule

\* one run of main() from any feed and any watermark file
Spec == Init /\ [][Next]_vars

\* successive runs from the first one, over a growing feed of clean titles
SpecRuns == InitRuns /\ [][NextRuns]_vars

\* one run of main() over the feed [A,B,C,D] with the watermark "B"
SpecExample == InitExample /\ [][Next]_vars

(* ---------------------------- observations ----------------------------- *)
IsPost(ev) == ev.op \in {"send_header", "send_summary"}

\* the event at position p is the post of the last chunk of its message
LastChunkAt(p) == IsPost(log[p]) /\ log[p].chunk = log[p].of

\* every chunk of message op of entry e was posted before position q
SentBefore(op, e, q) ==
  \E p \in 1..(q - 1) : log[p].op = op /\ log[p].entry = e /\ LastChunkAt(p)

Sent(op, e) == SentBefore(op, e, Len(log) + 1)

SaveEvents == {p \in DOMAIN log : log[p].op = "save"}

PostEvents == {p \in DOMAIN log : IsPost(log[p])}

\* the loop of lines 89-92 has run
DeltaDone == fetched /\ entries # <<>> /\ pc # "delta"

\* the watermark as stored when the run started ("" when there is none)
Stored == IF file0.exists THEN file0.content ELSE <<>>

\* ne is the prefix of es that ends just before the first entry titled w,
\* or all of es when no entry is titled w
PrefixBefore(es, w, ne) ==
  \E n \in 0..Len(es) :
    /\ ne = SubSeq(es, 1, n)
    /\ \A j \in 1..n : es[j].title # w
    /\ n < Len(es) => es[n + 1].title = w

TitlesOf(es) == [j \in 1..Len(es) |-> es[j].title]

IsFirstHeader(ev) == ev.op = "send_header" /\ ev.chunk = 1

\* the titles of the entries in the order their processing began
HeaderOrder ==
  LET hs == SelectSeq(log, IsFirstHeader)
  IN [j \in 1..Len(hs) |-> new_entries[hs[j].entry].title]

Rank(op) ==
  CASE op = "send_header" -> 1
    [] op = "get" -> 2
    [] op = "summarize" -> 3
    [] op = "send_summary" -> 4
    [] OTHER -> 5

\* number of runs in which entry e was processed
Count(e) == Cardinality({r \in processed : r.entry = e})

FeedSet == {feed[j] : j \in 1..Len(feed)}

C2_WatermarkUpdate ==
  /\ Cardinality(SaveEvents) <= 1
  /\ \A p \in SaveEvents :
       /\ p = Len(log)
       /\ p > 1
       /\ log[p - 1].op = "send_summary" /\ log[p - 1].entry = 1 /\ LastChunkAt(p - 1)
       /\ \A e \in 1..Len(new_entries) :
            SentBefore("send_header", e, p) /\ SentBefore("send_summary", e, p)
       /\ log[p].text = entries[1].title
       /\ file = FileOf(entries[1].title)
  /\ SaveEvents = {} => file = file0
  /\ (pc = "done" /\ new_entries # <<>>) => Cardinality(SaveEvents) = 1

\* a run with two new entries of different titles completed and saved
C2_Witness ==
  /\ pc = "done"
  /\ Len(new_entries) >= 2
  /\ new_entries[1].title # new_entries[Len(new_entries)].title
  /\ SaveEvents # {}

(* ---------------------------- C3 --------------------------------------- *)
\* C3: every step belongs to a new entry; when a step of an entry happens,
\* the summary message of every older new entry has been sent completely and
\* no step of a newer entry has happened; the steps of one entry happen in
\* the order header, extract, summarize, summary+link, extraction and
\* summarization once each, the chunks of a message in increasing order.
C3_ProcessingOrder ==
  \A q \in DOMAIN log :
    log[q].op # "save" =>
      LET e == log[q].entry
          r == Rank(log[q].op)
      IN /\ e \in 1..Len(new_entries)
         /\ \A o \in (e + 1)..Len(new_entries) : SentBefore("send_summary", o, q)
         /\ \A p \in 1..(q - 1) :
              /\ log[p].entry >= e
              /\ log[p].entry = e =>
                   /\ Rank(log[p].op) <= r
                   /\ Rank(log[p].op) = r => log[p].chunk < log[q].chunk
         /\ r = 2 => SentBefore("send_header", e, q)
         /\ r = 3 => \E p \in 1..(q - 1) : log[p].op = "get" /\ log[p].entry = e
         /\ r = 4 => \E p \in 1..(q - 1) : log[p].op = "summarize" /\ log[p].entry = e

\* two new entries were processed to the end
C3_Witness ==
  /\ pc = "done"
  /\ Len(new_entries) >= 2
  /\ \A e \in 1..Len(new_entries) : Sent("send_summary", e)

(* ---------------------------- C4 --------------------------------------- *)
\* C4 as stated: when the feed request answers a non-success status, or the
\* feed has no entries, or the stored watermark equals the title of the
\* newest entry, main returns having sent no message and leaving the
\* watermark file as it was (main makes no request after the feed request
\* then, so nothing is left that could raise).
C4_NothingToDo ==
  (\/ pc = "done" /\ ~fetched
   \/ fetched /\ entries = <<>>
   \/ fetched /\ entries # <<>> /\ file0.exists /\ file0.content = entries[1].title)
  => (log = <<>> /\ file = file0 /\ pc \in {"delta", "done"})

(* ---------------------------- C5 --------------------------------------- *)
\* C5 as stated: for the feed [A,B,C,D] and the watermark "B" the new
\* entries are [A,B], processed in the order [B,A].
C5_Original ==
  /\ DeltaDone => TitlesOf(new_entries) = << <<"A">>, <<"B">> >>
  /\ pc = "done" /\ fetched => HeaderOrder = << <<"B">>, <<"A">> >>

\* C5 amended: for the feed [A,B,C,D] and the watermark "B" the new entries
\* are [A], and a run that completes processes exactly [A].
C5_Amended ==
  /\ DeltaDone => TitlesOf(new_entries) = << <<"A">> >>
  /\ pc = "done" /\ fetched => HeaderOrder = << <<"A">> >>

\* the run over [A,B,C,D] completed and saved the watermark
C5_Witness ==
  /\ pc = "done"
  /\ TitlesOf(entries) = << <<"A">>, <<"B">>, <<"C">>, <<"D">> >>
  /\ file0 = FileOf(<<"B">>)
  /\ SaveEvents # {}

(* ---------------------------- C6 --------------------------------------- *)
\* C6 as stated: with no watermark file, every entry of a non-empty feed is
\* new, and a run that completes has processed every one of them.
C6_FirstRun ==
  (~file0.exists /\ DeltaDone) =>
    /\ new_entries = entries
    /\ pc = "done" =>
         \A e \in 1..Len(entries) : Sent("send_header", e) /\ Sent("send_summary", e)

(* ---------------------------- C7 --------------------------------------- *)
\* C7 as stated: when the summarization call fails for an entry, summarize
\* returns the placeholder, the summary+link message of that entry carries
\* the placeholder, and the run goes on: it does not end in an exception,
\* and when it ends every new entry has been sent and the watermark saved.
C7_SummarizeFallback ==
  \A q \in DOMAIN log :
    (log[q].op = "summarize" /\ log[q].status = 0) =>
      LET e == log[q].entry
          msg == SummaryMessage(SummaryUnavailable, new_entries[e].link)
      IN /\ (pc = "send_summary" /\ Cur = e) =>
              (summary = SummaryUnavailable /\ text = msg)
         /\ \A p \in DOMAIN log :
              (log[p].op = "send_summary" /\ log[p].entry = e) => log[p].text = msg
         /\ pc \notin Raised
         /\ pc = "done" =>
              /\ \A o \in 1..Len(new_entries) : Sent("send_summary", o)
              /\ SaveEvents # {}

(* ---------------------------- C8 --------------------------------------- *)
\* C8 as stated: a failed page fetch, by status or by timeout, never raises:
\* fetch_full_text returns the placeholder, summarize gets it as its input,
\* and the run goes on to the watermark save.
C8_ExtractionFailure ==
  /\ pc # "raised_page"
  /\ \A q \in DOMAIN log :
       (log[q].op = "get" /\ log[q].status # 200) =>
         /\ log[q].text = CouldNotFetch(log[q].status)
         /\ \A p \in DOMAIN log :
              (log[p].op = "summarize" /\ log[p].entry = log[q].entry)
                => log[p].text = log[q].text
         /\ pc \notin Raised
         /\ pc = "done" => SaveEvents # {}

(* ---------------------------- C9 --------------------------------------- *)
\* C9 as stated: the chunks of a message are posted once each and in order,
\* a message whose sending is over has had every chunk posted, and no failed
\* post, rejected or not delivered, ends the run.
C9_SendFailureIgnored ==
  /\ pc # "raised_post"
  /\ \A q \in PostEvents :
       /\ log[q].of = Len(Wrap(log[q].text))
       /\ log[q].chunk \in 1..log[q].of
       /\ log[q].chunk = 1 + Cardinality({p \in 1..(q - 1) :
                               log[p].op = log[q].op /\ log[p].entry = log[q].entry})
       /\ (pc = log[q].op /\ Cur = log[q].entry /\ k <= Len(chunks))
            \/ Sent(log[q].op, log[q].entry)

(* ---------------------------- C10 -------------------------------------- *)
\* C10 as stated: over runs that all completed, no entry is processed in two
\* runs, a run that got the feed leaves every entry of it processed in
\* exactly one run, and a run against a feed unchanged since the previous
\* completed run sends no message.
C10_Original ==
  ~crashed =>
    /\ \A e \in FeedSet : Count(e) <= 1
    /\ (pc = "done" /\ fetched /\ ~published) => \A e \in FeedSet : Count(e) = 1
    /\ sinceDone => PostEvents = {}

\* C10 amended: over runs that all completed, no entry is processed in two
\* runs, a run whose feed request succeeded leaves every entry of the feed
\* processed in exactly one run, and a run against a feed unchanged since
\* the previous run whose feed request succeeded sends no message.
C10_Amended ==
  ~crashed =>
    /\ \A e \in FeedSet : Count(e) <= 1
    /\ (pc = "done" /\ fetched /\ ~published) => \A e \in FeedSet : Count(e) = 1
    /\ sinceFetched => PostEvents = {}

\* a second run completed after entries were processed in the first run and
\* another entry in the second
C10_Witness ==
  /\ ~crashed
  /\ pc = "done"
  /\ fetched
  /\ \E a, b \in processed : a.run = 1 /\ b.run = 2

====
